---- MODULE Spec2Model ----
(***************************************************************************)
(* Model of workflow_logger.AxiomLogger (src/workflow_logger/              *)
(* axiom_logger.py): the allowlist compiler, the path matcher, the         *)
(* recursive redactor with its body-unwrap shortcut, and the logging       *)
(* facade with its error debounce.                                         *)
(*                                                                         *)
(* Strings are sequences of one-character strings, so that lower-casing,   *)
(* dotted paths, regex anchoring and JSON parsing are computed.            *)
(* A Python value is a record [t, s, items]:                               *)
(*   t = "str"   s = the characters                                        *)
(*   t = "int"   s = the decimal digits                                    *)
(*   t = "true" / "false" / "null"                                         *)
(*   t = "dict"  items = the entries [k, val] in insertion order           *)
(*   t = "list"  items = the elements as entries [k |-> <<>>, val]         *)
(***************************************************************************)
EXTENDS Integers, Sequences, FiniteSets, TLC

VARIABLES
    caller_fields,      \* the allowed_fields argument of __init__ (<<>> is None/empty)
    allowed_fields,     \* self.allowed_fields
    compiled_patterns,  \* self._compiled_patterns
    handler,            \* self.handler / self.axiom_logger is set (remote sink configured)
    op,                 \* the last operation run on the instance
    \* the frame of the last call (Null, <<>>, FALSE for what the call does not have):
    data,               \* redact_sensitive_fields: the data argument of the caller's call
    previous,           \* redact_sensitive_fields: the result that was passed in again
    redacted,           \* redact_sensitive_fields: the value returned
    field_path,         \* _is_field_allowed: the field_path argument
    current_path,       \* _is_field_allowed: the current_path argument
    allowed,            \* _is_field_allowed: the value returned
    now,                \* time.time(), in whole seconds
    last_error_time,    \* self.last_error_time (None or a time)
    calls,              \* the error() calls made, oldest first: [t, flag]
    returned,           \* error/info/warning/flush: the value returned by the last call
    propagated,         \* error/info/warning/flush: an exception left the last call
    sink,               \* error/info/warning: what became of the remote dispatch
    pc,                 \* concurrent error(): each thread's position
    current_time,       \* concurrent error(): each thread's local current_time
    exclude_from_slack  \* concurrent error(): each thread's local exclude_from_slack

vars == <<caller_fields, allowed_fields, compiled_patterns, handler, op, data,
          previous, redacted, field_path, current_path, allowed, now, last_error_time,
          calls, returned, propagated, sink, pc, current_time, exclude_from_slack>>

engineVars == <<op, data, previous, redacted, field_path, current_path, allowed>>
facadeVars == <<now, last_error_time, calls, returned, propagated, sink>>
threadVars == <<pc, current_time, exclude_from_slack>>
configVars == <<caller_fields, allowed_fields, compiled_patterns, handler>>

-----------------------------------------------------------------------------
(* Characters and strings *)

UpperCase == <<"A","B","C","D","E","F","G","H","I","J","K","L","M",
               "N","O","P","Q","R","S","T","U","V","W","X","Y","Z">>
LowerCase == <<"a","b","c","d","e","f","g","h","i","j","k","l","m",
               "n","o","p","q","r","s","t","u","v","w","x","y","z">>
Digits == {"0","1","2","3","4","5","6","7","8","9"}

\* str.lower() on one ASCII character
LowerChar(c) ==
    IF \E i \in 1..Len(UpperCase) : UpperCase[i] = c
    THEN LowerCase[CHOOSE i \in 1..Len(UpperCase) : UpperCase[i] = c]
    ELSE c

\* str.lower()
Lower(s) == [i \in 1..Len(s) |-> LowerChar(s[i])]

NL == "\n"
DOT == "."
QUOTE == "\""

\* s[i:] (1-based i)
From(s, i) == SubSeq(s, i, Len(s))

\* s.startswith(p)
StartsWith(s, p) == Len(p) <= Len(s) /\ SubSeq(s, 1, Len(p)) = p

-----------------------------------------------------------------------------
(* Python values *)

Str(s)   == [t |-> "str",   s |-> s,    items |-> <<>>]
Num(s)   == [t |-> "int",   s |-> s,    items |-> <<>>]
True     == [t |-> "true",  s |-> <<>>, items |-> <<>>]
False    == [t |-> "false", s |-> <<>>, items |-> <<>>]
Null     == [t |-> "null",  s |-> <<>>, items |-> <<>>]
Dict(es) == [t |-> "dict",  s |-> <<>>, items |-> es]
List(vs) == [t |-> "list",  s |-> <<>>, items |-> [i \in 1..Len(vs) |-> [k |-> <<>>, val |-> vs[i]]]]
E(k, v)  == [k |-> k, val |-> v]

IsDict(v) == v.t = "dict"
IsList(v) == v.t = "list"
IsStr(v)  == v.t = "str"

\* key in d
HasKey(d, k) == \E i \in 1..Len(d.items) : d.items[i].k = k

\* d[k]
Get(d, k) == d.items[CHOOSE i \in 1..Len(d.items) : d.items[i].k = k].val

\* d[k] = v on a dict: an existing key keeps its position, a new key is appended
DictSet(d, k, v) ==
    IF HasKey(d, k)
    THEN Dict([i \in 1..Len(d.items) |->
                  IF d.items[i].k = k THEN E(k, v) ELSE d.items[i]])
    ELSE Dict(Append(d.items, E(k, v)))

-----------------------------------------------------------------------------
(* json.loads, for JSON texts made of objects, arrays, strings with the    *)
(* escapes \" \\ \/ \n, integers, true, false and null                     *)

Fail == [ok |-> FALSE, val |-> Null, pos |-> 0]
Ok(v, p) == [ok |-> TRUE, val |-> v, pos |-> p]

At(s, i) == IF i <= Len(s) THEN s[i] ELSE "EOF"

IsWs(c) == c \in {" ", NL}

RECURSIVE SkipWs(_, _)
SkipWs(s, i) == IF IsWs(At(s, i)) THEN SkipWs(s, i + 1) ELSE i

\* the string whose opening quote precedes position i
RECURSIVE ScanString(_, _, _)
ScanString(s, i, acc) ==
    LET c == At(s, i) IN
    CASE c = "EOF" -> Fail
      [] c = NL -> Fail
      [] c = QUOTE -> Ok(Str(acc), i + 1)
      [] c = "\\" ->
            LET d == At(s, i + 1) IN
            CASE d \in {QUOTE, "\\", "/"} -> ScanString(s, i + 2, Append(acc, d))
              [] d = "n" -> ScanString(s, i + 2, Append(acc, NL))
              [] OTHER -> Fail
      [] OTHER -> ScanString(s, i + 1, Append(acc, c))

RECURSIVE ScanDigits(_, _)
ScanDigits(s, i) == IF At(s, i) \in Digits THEN ScanDigits(s, i + 1) ELSE i

\* an integer starting at position i: -?(0|[1-9][0-9]*)
ScanNumber(s, i) ==
    LET j == IF At(s, i) = "-" THEN i + 1 ELSE i
        e == IF At(s, j) = "0" THEN j + 1 ELSE ScanDigits(s, j)
    IN IF e = j THEN Fail ELSE Ok(Num(SubSeq(s, i, e - 1)), e)

ScanLiteral(s, i, word, v) ==
    IF StartsWith(From(s, i), word) THEN Ok(v, i + Len(word)) ELSE Fail

RECURSIVE ParseValue(_, _), ParseMembers(_, _, _), ParseElements(_, _, _)

\* the value starting at position i (whitespace already skipped)
ParseValue(s, i) ==
    LET c == At(s, i) IN
    CASE c = QUOTE -> ScanString(s, i + 1, <<>>)
      [] c = "{" ->
            LET j == SkipWs(s, i + 1) IN
            IF At(s, j) = "}" THEN Ok(Dict(<<>>), j + 1)
            ELSE ParseMembers(s, j, Dict(<<>>))
      [] c = "[" ->
            LET j == SkipWs(s, i + 1) IN
            IF At(s, j) = "]" THEN Ok(List(<<>>), j + 1)
            ELSE ParseElements(s, j, <<>>)
      [] c = "t" -> ScanLiteral(s, i, <<"t","r","u","e">>, True)
      [] c = "f" -> ScanLiteral(s, i, <<"f","a","l","s","e">>, False)
      [] c = "n" -> ScanLiteral(s, i, <<"n","u","l","l">>, Null)
      [] c = "-" \/ c \in Digits -> ScanNumber(s, i)
      [] OTHER -> Fail

\* the members of an object from position i, a key's opening quote expected;
\* a repeated key keeps its first position and takes the last value
ParseMembers(s, i, acc) ==
    IF At(s, i) # QUOTE THEN Fail
    ELSE
      LET key == ScanString(s, i + 1, <<>>) IN
      IF ~key.ok THEN Fail
      ELSE
        LET j == SkipWs(s, key.pos) IN
        IF At(s, j) # ":" THEN Fail
        ELSE
          LET v == ParseValue(s, SkipWs(s, j + 1)) IN
          IF ~v.ok THEN Fail
          ELSE
            LET acc2 == DictSet(acc, key.val.s, v.val)
                n == SkipWs(s, v.pos)
            IN CASE At(s, n) = "}" -> Ok(acc2, n + 1)
                 [] At(s, n) = "," -> ParseMembers(s, SkipWs(s, n + 1), acc2)
                 [] OTHER -> Fail

\* the elements of an array from position i
ParseElements(s, i, acc) ==
    LET v == ParseValue(s, i) IN
    IF ~v.ok THEN Fail
    ELSE
      LET acc2 == Append(acc, v.val)
          n == SkipWs(s, v.pos)
      IN CASE At(s, n) = "]" -> Ok(List(acc2), n + 1)
           [] At(s, n) = "," -> ParseElements(s, SkipWs(s, n + 1), acc2)
           [] OTHER -> Fail

\* json.loads(s): ok is FALSE where json.loads raises JSONDecodeError
json_loads(s) ==
    LET v == ParseValue(s, SkipWs(s, 1)) IN
    IF v.ok /\ SkipWs(s, v.pos) = Len(s) + 1 THEN Ok(v.val, v.pos) ELSE Fail

-----------------------------------------------------------------------------
(* Regular expressions (re): a pattern is a sequence of atoms              *)
(*   [kind |-> "bol"]      ^                                               *)
(*   [kind |-> "eol"]      $                                               *)
(*   [kind |-> "char", c]  the character c (escaped where re needs it)     *)
(*   [kind |-> "dotstar"]  .*                                              *)
(* with the flag icase for re.IGNORECASE.                                  *)

Bol      == [kind |-> "bol",     c |-> ""]
Eol      == [kind |-> "eol",     c |-> ""]
Chr(c)   == [kind |-> "char",    c |-> c]
DotStar  == [kind |-> "dotstar", c |-> ""]

\* re.escape(s): every character of s stands for itself
re_escape(s) == [i \in 1..Len(s) |-> Chr(s[i])]

\* an allowlist entry: a literal string, or a compiled re.Pattern
Literal(s) == [is_pattern |-> FALSE, s |-> s, atoms |-> <<>>, icase |-> FALSE]
Pattern(atoms, icase) == [is_pattern |-> TRUE, s |-> <<>>, atoms |-> atoms, icase |-> icase]

RECURSIVE MatchAt(_, _, _, _, _)
\* atoms[a..] match s from position i on (the match may end before the end of s)
MatchAt(atoms, a, s, i, icase) ==
    IF a > Len(atoms) THEN TRUE
    ELSE
      LET atom == atoms[a] IN
      CASE atom.kind = "bol" -> i = 1 /\ MatchAt(atoms, a + 1, s, i, icase)
        [] atom.kind = "eol" ->
              /\ i = Len(s) + 1 \/ (i = Len(s) /\ s[i] = NL)
              /\ MatchAt(atoms, a + 1, s, i, icase)
        [] atom.kind = "char" ->
              /\ i <= Len(s)
              /\ IF icase THEN LowerChar(s[i]) = LowerChar(atom.c) ELSE s[i] = atom.c
              /\ MatchAt(atoms, a + 1, s, i + 1, icase)
        [] atom.kind = "dotstar" ->
              \E j \in i..(Len(s) + 1) :
                  /\ \A k \in i..(j - 1) : s[k] # NL
                  /\ MatchAt(atoms, a + 1, s, j, icase)

\* pattern.match(s): a match starting at the beginning of s
re_match(pattern, s) == MatchAt(pattern.atoms, 1, s, 1, pattern.icase)

-----------------------------------------------------------------------------
(* AxiomLogger: construction, pattern compiler, path matcher *)

DEFAULT_ALLOWED_FIELDS == <<Literal(<<"i","d">>)>>
BODY_UNWRAPPED == <<"_","_","b","o","d","y","_","u","n","w","r","a","p","p","e","d">>
BODY == <<"b","o","d","y">>
REDACTED == Str(<<"[","R","E","D","A","C","T","E","D","]">>)

\* one iteration of the loop of _compile_patterns
compile_field(field) ==
    IF field.is_pattern THEN field
    ELSE LET pattern_str == Lower(field.s)
             escaped == re_escape(pattern_str)
         IN Pattern(<<Bol>> \o escaped \o <<Eol>>, TRUE)

_compile_patterns(fields) == [i \in 1..Len(fields) |-> compile_field(fields[i])]

\* an allowlist to which the marker is not added
init_allowed_fields_no_marker(fields) ==
    IF fields # <<>> THEN fields ELSE DEFAULT_ALLOWED_FIELDS

\* __init__: self.allowed_fields
init_allowed_fields(fields) ==
    LET base_fields == IF fields # <<>> THEN fields ELSE DEFAULT_ALLOWED_FIELDS
    IN base_fields \o <<Literal(BODY_UNWRAPPED)>>

\* f"{current_path}.{key}" if current_path else key
join_path(path, key) == IF path # <<>> THEN path \o <<DOT>> \o key ELSE key

\* a matcher that tries the field name alone
_is_field_allowed_name_only(field, path) ==
    \E i \in 1..Len(compiled_patterns) : re_match(compiled_patterns[i], field)

_is_field_allowed(field, path) ==
    LET full_path == join_path(path, field) IN
    \E i \in 1..Len(compiled_patterns) :
        \/ re_match(compiled_patterns[i], field)
        \/ re_match(compiled_patterns[i], full_path)

-----------------------------------------------------------------------------
(* AxiomLogger.redact_sensitive_fields *)

\* an unwrap that leaves no marker in the working record
unwrap_body_no_marker(d, path) ==
    IF Len(d.items) = 1 /\ HasKey(d, BODY) /\ path = <<>> /\ IsStr(Get(d, BODY))
    THEN LET parsed_body == json_loads(Get(d, BODY).s) IN
         IF parsed_body.ok /\ IsDict(parsed_body.val) THEN parsed_body.val ELSE d
    ELSE d

\* the body-unwrap step: the record the loop then works on
unwrap_body(d, path) ==
    IF Len(d.items) = 1 /\ HasKey(d, BODY) /\ path = <<>>
    THEN LET body_value == Get(d, BODY) IN
         IF IsStr(body_value)
         THEN LET parsed_body == json_loads(body_value.s) IN
              IF parsed_body.ok /\ IsDict(parsed_body.val)
              THEN DictSet(parsed_body.val, BODY_UNWRAPPED, True)
              ELSE d
         ELSE d
    ELSE d

RECURSIVE redact_sensitive_fields(_, _)

\* a loop body that redacts the elements of a sequence at the current path
redact_field_flat_path(key, value, path) ==
    IF _is_field_allowed(key, path)
    THEN CASE IsDict(value) -> redact_sensitive_fields(value, join_path(path, key))
           [] IsList(value) ->
                [value EXCEPT !.items =
                    [i \in 1..Len(value.items) |->
                        LET item == value.items[i].val IN
                        E(<<>>, IF IsDict(item)
                                THEN redact_sensitive_fields(item, path)
                                ELSE item)]]
           [] OTHER -> value
    ELSE REDACTED

\* the value stored under key by one iteration of the loop
redact_field(key, value, path) ==
    IF _is_field_allowed(key, path)
    THEN CASE IsDict(value) -> redact_sensitive_fields(value, join_path(path, key))
           [] IsList(value) ->
                LET nested_path == join_path(path, key) IN
                [value EXCEPT !.items =
                    [i \in 1..Len(value.items) |->
                        LET item == value.items[i].val IN
                        E(<<>>, IF IsDict(item)
                                THEN redact_sensitive_fields(item, nested_path)
                                ELSE item)]]
           [] OTHER -> value
    ELSE REDACTED

redact_sensitive_fields(d, path) ==
    IF ~IsDict(d) THEN d
    ELSE LET w == unwrap_body(d, path) IN
         Dict([i \in 1..Len(w.items) |->
                  E(w.items[i].k, redact_field(w.items[i].k, w.items[i].val, path))])

-----------------------------------------------------------------------------
(* Inputs *)

\* allowed_fields arguments of __init__
\* []
fields_none == <<>>
\* ['data', 'id']
fields_data_id == <<Literal(<<"d","a","t","a">>), Literal(<<"i","d">>)>>
\* ['data.user_id']
fields_path_only == <<Literal(<<"d","a","t","a",".","u","s","e","r","_","i","d">>)>>
\* ['data', 'data.user_id']
fields_data_path == <<Literal(<<"d","a","t","a">>), Literal(<<"d","a","t","a",".","u","s","e","r","_","i","d">>)>>
\* ['body', 'ID']
fields_body == <<Literal(<<"b","o","d","y">>), Literal(<<"I","D">>)>>
\* ['', 'Data']
fields_empty_key == <<Literal(<<>>), Literal(<<"D","a","t","a">>)>>
\* [re.compile('.*_id$'), 'data']
fields_regex == <<Pattern(<<DotStar, Chr("_"), Chr("i"), Chr("d"), Eol>>, FALSE), Literal(<<"d","a","t","a">>)>>
AllowLists == <<fields_none, fields_data_id, fields_path_only, fields_data_path, fields_body, fields_empty_key, fields_regex>>

\* data arguments of redact_sensitive_fields
\* {'id': 1, 'secret': 'x'}
rec_flat == Dict(<<E(<<"i","d">>, Num(<<"1">>)), E(<<"s","e","c","r","e","t">>, Str(<<"x">>))>>)
\* {'data': {'user_id': 'x'}}
rec_nested_user == Dict(<<E(<<"d","a","t","a">>, Dict(<<E(<<"u","s","e","r","_","i","d">>, Str(<<"x">>))>>))>>)
\* {'user_id': 'x'}
rec_top_user == Dict(<<E(<<"u","s","e","r","_","i","d">>, Str(<<"x">>))>>)
\* {'data': [{'id': 1, 'x': 2}, {'id': 3, 'x': 4}]}
rec_list == Dict(<<E(<<"d","a","t","a">>, List(<<Dict(<<E(<<"i","d">>, Num(<<"1">>)), E(<<"x">>, Num(<<"2">>))>>), Dict(<<E(<<"i","d">>, Num(<<"3">>)), E(<<"x">>, Num(<<"4">>))>>)>>))>>)
\* {'data': [[{'secret': 'x'}]]}
rec_list_of_lists == Dict(<<E(<<"d","a","t","a">>, List(<<List(<<Dict(<<E(<<"s","e","c","r","e","t">>, Str(<<"x">>))>>)>>)>>))>>)
\* {'data': [1, 's', {'id': 1, 'secret': {'id': 2}}, None]}
rec_list_mixed == Dict(<<E(<<"d","a","t","a">>, List(<<Num(<<"1">>), Str(<<"s">>), Dict(<<E(<<"i","d">>, Num(<<"1">>)), E(<<"s","e","c","r","e","t">>, Dict(<<E(<<"i","d">>, Num(<<"2">>))>>))>>), Null>>))>>)
\* {'body': '{"id": 1, "secret": "x"}'}
rec_body_json == Dict(<<E(<<"b","o","d","y">>, Str(<<"{","\"","i","d","\"",":"," ","1",","," ","\"","s","e","c","r","e","t","\"",":"," ","\"","x","\"","}">>))>>)
\* {'body': 'not json'}
rec_body_text == Dict(<<E(<<"b","o","d","y">>, Str(<<"n","o","t"," ","j","s","o","n">>))>>)
\* {'body': '[1, 2]'}
rec_body_array == Dict(<<E(<<"b","o","d","y">>, Str(<<"[","1",","," ","2","]">>))>>)
\* {'body': '{"__body_unwrapped": false, "id": 2}'}
rec_body_marker == Dict(<<E(<<"b","o","d","y">>, Str(<<"{","\"","_","_","b","o","d","y","_","u","n","w","r","a","p","p","e","d","\"",":"," ","f","a","l","s","e",","," ","\"","i","d","\"",":"," ","2","}">>))>>)
\* {'body': '{"body": "{\\"id\\": 1}"}'}
rec_body_in_body == Dict(<<E(<<"b","o","d","y">>, Str(<<"{","\"","b","o","d","y","\"",":"," ","\"","{","\\","\"","i","d","\\","\"",":"," ","1","}","\"","}">>))>>)
\* {'body': {'id': 1}}
rec_body_dict == Dict(<<E(<<"b","o","d","y">>, Dict(<<E(<<"i","d">>, Num(<<"1">>))>>))>>)
\* {'body': '{"id": 1}', 'id': 2}
rec_body_and_id == Dict(<<E(<<"b","o","d","y">>, Str(<<"{","\"","i","d","\"",":"," ","1","}">>)), E(<<"i","d">>, Num(<<"2">>))>>)
\* {'data': {'body': '{"id": 1}'}}
rec_body_nested == Dict(<<E(<<"d","a","t","a">>, Dict(<<E(<<"b","o","d","y">>, Str(<<"{","\"","i","d","\"",":"," ","1","}">>))>>))>>)
\* {'': {'body': '{"id": 1}'}}
rec_body_under_empty == Dict(<<E(<<>>, Dict(<<E(<<"b","o","d","y">>, Str(<<"{","\"","i","d","\"",":"," ","1","}">>))>>))>>)
\* {'data': [{'body': '{"id": 1}'}]}
rec_body_in_list == Dict(<<E(<<"d","a","t","a">>, List(<<Dict(<<E(<<"b","o","d","y">>, Str(<<"{","\"","i","d","\"",":"," ","1","}">>))>>)>>))>>)
\* {'': [{'body': '{"id": 1}'}]}
rec_body_in_list_under_empty == Dict(<<E(<<>>, List(<<Dict(<<E(<<"b","o","d","y">>, Str(<<"{","\"","i","d","\"",":"," ","1","}">>))>>)>>))>>)
\* {'ID': 1, 'iD\n': 2, 'identifier': 3, 'valid': 4}
rec_case == Dict(<<E(<<"I","D">>, Num(<<"1">>)), E(<<"i","D","\n">>, Num(<<"2">>)), E(<<"i","d","e","n","t","i","f","i","e","r">>, Num(<<"3">>)), E(<<"v","a","l","i","d">>, Num(<<"4">>))>>)
\* {}
rec_empty == Dict(<<>>)
\* {'data': {'data': {'user_id': 'x', 'id': True}, 'user_id': 'y'}}
rec_deep == Dict(<<E(<<"d","a","t","a">>, Dict(<<E(<<"d","a","t","a">>, Dict(<<E(<<"u","s","e","r","_","i","d">>, Str(<<"x">>)), E(<<"i","d">>, True)>>)), E(<<"u","s","e","r","_","i","d">>, Str(<<"y">>))>>))>>)
\* {'body': '[REDACTED]'}
rec_body_sentinel == Dict(<<E(<<"b","o","d","y">>, Str(<<"[","R","E","D","A","C","T","E","D","]">>))>>)
\* {'id': {'secret': 'x'}, 'secret': {'id': 1}}
rec_cross == Dict(<<E(<<"i","d">>, Dict(<<E(<<"s","e","c","r","e","t">>, Str(<<"x">>))>>)), E(<<"s","e","c","r","e","t">>, Dict(<<E(<<"i","d">>, Num(<<"1">>))>>))>>)
\* {'body': '{"id": 1'}
rec_body_truncated == Dict(<<E(<<"b","o","d","y">>, Str(<<"{","\"","i","d","\"",":"," ","1">>))>>)
\* {'body': ' {"data": {"user_id": "x"}, "data": [{"account_id": 7}]}\n'}
rec_body_spaced == Dict(<<E(<<"b","o","d","y">>, Str(<<" ","{","\"","d","a","t","a","\"",":"," ","{","\"","u","s","e","r","_","i","d","\"",":"," ","\"","x","\"","}",","," ","\"","d","a","t","a","\"",":"," ","[","{","\"","a","c","c","o","u","n","t","_","i","d","\"",":"," ","7","}","]","}","\n">>))>>)
\* {'body': '{"data": {"body": "{\\"id\\": 1}"}, "id": -10}'}
rec_body_nested_json == Dict(<<E(<<"b","o","d","y">>, Str(<<"{","\"","d","a","t","a","\"",":"," ","{","\"","b","o","d","y","\"",":"," ","\"","{","\\","\"","i","d","\\","\"",":"," ","1","}","\"","}",","," ","\"","i","d","\"",":"," ","-","1","0","}">>))>>)
\* {'data': [{'user_id': 'x'}, 5, {'data': {'user_id': 'y'}}]}
rec_list_path == Dict(<<E(<<"d","a","t","a">>, List(<<Dict(<<E(<<"u","s","e","r","_","i","d">>, Str(<<"x">>))>>), Num(<<"5">>), Dict(<<E(<<"d","a","t","a">>, Dict(<<E(<<"u","s","e","r","_","i","d">>, Str(<<"y">>))>>))>>)>>))>>)
\* 'x'
rec_scalar == Str(<<"x">>)
Records == <<rec_flat, rec_nested_user, rec_top_user, rec_list, rec_list_of_lists, rec_list_mixed, rec_body_json, rec_body_text, rec_body_array, rec_body_marker, rec_body_in_body, rec_body_dict, rec_body_and_id, rec_body_nested, rec_body_under_empty, rec_body_in_list, rec_body_in_list_under_empty, rec_case, rec_empty, rec_deep, rec_body_sentinel, rec_cross, rec_body_truncated, rec_body_spaced, rec_body_nested_json, rec_list_path, rec_scalar>>

\* field_path and current_path arguments of _is_field_allowed
FieldNames == <<<<"i","d">>, <<"I","D">>, <<"I","d">>, <<"i","D">>, <<"i","d","e","n","t","i","f","i","e","r">>, <<"v","a","l","i","d">>, <<"i","d","\n">>, <<"u","s","e","r","_","i","d">>, <<"d","a","t","a",".","u","s","e","r","_","i","d">>, <<"d","a","t","a">>, <<>>, <<"_","_","b","o","d","y","_","u","n","w","r","a","p","p","e","d">>, <<"a","c","c","o","u","n","t","_","i","d","\n">>, <<"i">>, <<"b","o","d","y">>>>
Paths == <<<<>>, <<"d","a","t","a">>, <<"d","a","t","a",".","d","a","t","a">>>>

-----------------------------------------------------------------------------
(* The instance after __init__ *)

NoTime == [is_none |-> TRUE, t |-> 0]
Threads == {1, 2}

Init ==
    /\ \E i \in 1..Len(AllowLists) : caller_fields = AllowLists[i]
    /\ allowed_fields = init_allowed_fields(caller_fields)
    /\ compiled_patterns = _compile_patterns(allowed_fields)
    /\ handler \in BOOLEAN
    /\ op = "init"
    /\ data = Null
    /\ previous = Null
    /\ redacted = Null
    /\ field_path = <<>>
    /\ current_path = <<>>
    /\ allowed = FALSE
    /\ now = 0
    /\ last_error_time = NoTime
    /\ calls = <<>>
    /\ returned = FALSE
    /\ propagated = FALSE
    /\ sink = "no_call"
    /\ pc = [t \in Threads |-> "idle"]
    /\ current_time = [t \in Threads |-> 0]
    /\ exclude_from_slack = [t \in Threads |-> FALSE]

-----------------------------------------------------------------------------
(* The redaction engine, called directly *)

\* redact_sensitive_fields(data) on a record, from the root
Redact(i) ==
    /\ op' = "redact"
    /\ data' = Records[i]
    /\ previous' = Null
    /\ redacted' = redact_sensitive_fields(Records[i], <<>>)
    /\ field_path' = <<>> /\ current_path' = <<>> /\ allowed' = FALSE
    /\ UNCHANGED <<configVars, facadeVars, threadVars>>

\* redact_sensitive_fields on the result of the previous call, from the root
RedactAgain ==
    /\ op = "redact"
    /\ op' = "redact_again"
    /\ previous' = redacted
    /\ redacted' = redact_sensitive_fields(redacted, <<>>)
    /\ UNCHANGED <<data, field_path, current_path, allowed>>
    /\ UNCHANGED <<configVars, facadeVars, threadVars>>

\* _is_field_allowed(field_path, current_path)
IsFieldAllowed(k, p) ==
    /\ op' = "match"
    /\ field_path' = FieldNames[k]
    /\ current_path' = Paths[p]
    /\ allowed' = _is_field_allowed(FieldNames[k], Paths[p])
    /\ data' = Null /\ previous' = Null /\ redacted' = Null
    /\ UNCHANGED <<configVars, facadeVars, threadVars>>

Next ==
    \/ \E i \in 1..Len(Records) : Redact(i)
    \/ RedactAgain
    \/ \E k \in 1..Len(FieldNames), p \in 1..Len(Paths) : IsFieldAllowed(k, p)

Spec == Init /\ [][Next]_vars

-----------------------------------------------------------------------------
(* The logging facade: error, info, warning, flush, called one at a time *)

MaxTime == 8      \* the clock stops advancing here
MaxCalls == 3     \* error() calls recorded in one run

DEBOUNCE_SECONDS == 5

\* event_data arguments (Null is None)
EventData == <<Null, rec_flat>>

\* error(): a repeated error call, less than 5 seconds after the stored one
is_repeated_inclusive(last, time) ==
    ~last.is_none /\ (time - last.t) <= DEBOUNCE_SECONDS

is_repeated(last, time) ==
    ~last.is_none /\ (time - last.t) < DEBOUNCE_SECONDS

\* event_data or {}
event_or_empty(event) == IF event = Null THEN Dict(<<>>) ELSE event

\* the remote step without its own try/except: a raising dispatch leaves it
axiom_step_unguarded(dispatch_raises) ==
    IF handler THEN (IF dispatch_raises THEN "raise" ELSE "delivered") ELSE "none"

\* the remote step of error/info/warning: "none" with no remote logger,
\* "caught" when the dispatch raised inside the inner try, "raise" when an
\* exception leaves the step
axiom_step(dispatch_raises) ==
    IF handler THEN (IF dispatch_raises THEN "caught" ELSE "delivered") ELSE "none"

\* the body of error/info/warning after the debounce, inside the outer try:
\* the console message (json.dumps(context) raises when context_ok is FALSE),
\* then the remote step; the outer except returns False
log_outcome(context_ok, dispatch_raises) ==
    IF ~context_ok
    THEN [returned |-> FALSE, propagated |-> FALSE, sink |-> "not_reached"]
    ELSE LET a == axiom_step(dispatch_raises) IN
         IF a = "raise"
         THEN [returned |-> FALSE, propagated |-> FALSE, sink |-> "raise"]
         ELSE [returned |-> TRUE, propagated |-> FALSE, sink |-> a]

\* the call frame left by error/info/warning
LogFrame(name, event, out) ==
    /\ op' = name
    /\ data' = event
    /\ previous' = Null
    /\ redacted' = IF out.sink \in {"delivered", "caught"}
                   THEN redact_sensitive_fields(event_or_empty(event), <<>>)
                   ELSE Null
    /\ returned' = out.returned
    /\ propagated' = out.propagated
    /\ sink' = out.sink
    /\ UNCHANGED <<field_path, current_path, allowed>>

Error(context_ok, dispatch_raises, e) ==
    /\ Len(calls) < MaxCalls
    /\ LET time == now
           flag == is_repeated(last_error_time, time)
       IN /\ last_error_time' = [is_none |-> FALSE, t |-> time]
          /\ calls' = Append(calls, [t |-> time, flag |-> flag])
    /\ LogFrame("error", EventData[e], log_outcome(context_ok, dispatch_raises))
    /\ UNCHANGED <<now, configVars, threadVars>>

\* an info() that stamps last_error_time the way error() does
Info_stamping(context_ok, dispatch_raises, e) ==
    /\ LogFrame("info", EventData[e], log_outcome(context_ok, dispatch_raises))
    /\ last_error_time' = [is_none |-> FALSE, t |-> now]
    /\ UNCHANGED <<now, calls, configVars, threadVars>>

Info(context_ok, dispatch_raises, e) ==
    /\ LogFrame("info", EventData[e], log_outcome(context_ok, dispatch_raises))
    /\ UNCHANGED <<now, last_error_time, calls, configVars, threadVars>>

Warning(context_ok, dispatch_raises, e) ==
    /\ LogFrame("warning", EventData[e], log_outcome(context_ok, dispatch_raises))
    /\ UNCHANGED <<now, last_error_time, calls, configVars, threadVars>>

Flush(flush_raises) ==
    /\ op' = "flush"
    /\ returned' = IF ~handler THEN FALSE ELSE ~flush_raises
    /\ propagated' = FALSE
    /\ sink' = "no_call"
    /\ data' = Null /\ previous' = Null /\ redacted' = Null
    /\ UNCHANGED <<field_path, current_path, allowed>>
    /\ UNCHANGED <<now, last_error_time, calls, configVars, threadVars>>

\* time.time() moves on
Tick ==
    /\ now < MaxTime
    /\ now' = now + 1
    /\ UNCHANGED <<last_error_time, calls, returned, propagated, sink>>
    /\ UNCHANGED <<configVars, engineVars, threadVars>>

InitFacade == Init /\ caller_fields = fields_none

NextFacade ==
    \/ \E c \in BOOLEAN, r \in BOOLEAN, e \in 1..Len(EventData) : Error(c, r, e)
    \/ \E c \in BOOLEAN, r \in BOOLEAN, e \in 1..Len(EventData) : Info(c, r, e)
    \/ \E c \in BOOLEAN, r \in BOOLEAN, e \in 1..Len(EventData) : Warning(c, r, e)
    \/ \E f \in BOOLEAN : Flush(f)
    \/ Tick

SpecFacade == InitFacade /\ [][NextFacade]_vars

\* the facade's calls, made with no event_data, together with direct calls
\* of redact_sensitive_fields
NextFrame ==
    \/ \E c \in BOOLEAN, r \in BOOLEAN : Error(c, r, 1)
    \/ \E c \in BOOLEAN, r \in BOOLEAN : Info(c, r, 1)
    \/ \E c \in BOOLEAN, r \in BOOLEAN : Warning(c, r, 1)
    \/ \E f \in BOOLEAN : Flush(f)
    \/ Tick
    \/ \E i \in 1..Len(Records) :
          Records[i] \in {rec_flat, rec_empty} /\ Redact(i)

SpecFrame == InitFacade /\ [][NextFrame]_vars

-----------------------------------------------------------------------------
(* error() called from several threads: the interpreter may switch threads  *)
(* between the statements of lines 220-231                                  *)

\* current_time = time.time(); exclude_from_slack = False
T_Time(t) ==
    /\ pc[t] = "idle"
    /\ Len(calls) + Cardinality({u \in Threads : pc[u] \in {"timed", "checked"}}) < MaxCalls
    /\ current_time' = [current_time EXCEPT ![t] = now]
    /\ exclude_from_slack' = [exclude_from_slack EXCEPT ![t] = FALSE]
    /\ pc' = [pc EXCEPT ![t] = "timed"]
    /\ UNCHANGED <<configVars, engineVars, facadeVars>>

\* if self.last_error_time is not None and ... < 5: exclude_from_slack = True
T_Check(t) ==
    /\ pc[t] = "timed"
    /\ exclude_from_slack' =
          [exclude_from_slack EXCEPT ![t] = is_repeated(last_error_time, current_time[t])]
    /\ pc' = [pc EXCEPT ![t] = "checked"]
    /\ UNCHANGED <<current_time, configVars, engineVars, facadeVars>>

\* self.last_error_time = current_time
T_Update(t) ==
    /\ pc[t] = "checked"
    /\ last_error_time' = [is_none |-> FALSE, t |-> current_time[t]]
    /\ calls' = Append(calls, [t |-> current_time[t], flag |-> exclude_from_slack[t]])
    /\ pc' = [pc EXCEPT ![t] = "updated"]
    /\ UNCHANGED <<now, returned, propagated, sink>>
    /\ UNCHANGED <<current_time, exclude_from_slack, configVars, engineVars>>

\* the rest of error(), lines 233-264, for a call with no context and no
\* event_data
T_Log(t, dispatch_raises) ==
    /\ pc[t] = "updated"
    /\ LogFrame("error", Null, log_outcome(TRUE, dispatch_raises))
    /\ pc' = [pc EXCEPT ![t] = "idle"]
    /\ UNCHANGED <<now, last_error_time, calls>>
    /\ UNCHANGED <<current_time, exclude_from_slack, configVars>>

NextThreads ==
    \/ \E t \in Threads : T_Time(t)
    \/ \E t \in Threads : T_Check(t)
    \/ \E t \in Threads : T_Update(t)
    \/ \E t \in Threads, r \in BOOLEAN : T_Log(t, r)
    \/ Tick

SpecThreads == InitFacade /\ [][NextThreads]_vars

-----------------------------------------------------------------------------
(* Claims about the redaction engine (specification Spec) *)

S_data == <<"d","a","t","a">>
S_user_id == <<"u","s","e","r","_","i","d">>

RECURSIVE NoLeak(_, _)
\* in the value v found at the dotted path, every key that matches no
\* compiled predicate holds the sentinel, through mappings and sequences
NoLeak(v, path) ==
    CASE IsDict(v) ->
           \A i \in 1..Len(v.items) :
               IF _is_field_allowed(v.items[i].k, path)
               THEN NoLeak(v.items[i].val, join_path(path, v.items[i].k))
               ELSE v.items[i].val = REDACTED
      [] IsList(v) -> \A i \in 1..Len(v.items) : NoLeak(v.items[i].val, path)
      [] OTHER -> TRUE

\* C1: in the output of redact_sensitive_fields every key, at any nesting
\* depth and inside sequences however nested, that matches no compiled
\* predicate by name or by full path holds exactly the sentinel.
C1_DefaultDenyEveryDepth == op = "redact" => NoLeak(redacted, <<>>)

\* C2 as stated: with only the literal "data.user_id" allowed, the nested
\* user_id value "x" of {"data": {"user_id": "x"}} is visible in the output,
\* and {"user_id": "x"} yields {"user_id": "[REDACTED]"}.
C2_PathOnlyShowsNested ==
    (op = "redact" /\ caller_fields = fields_path_only) =>
        /\ data = rec_nested_user =>
              /\ IsDict(Get(redacted, S_data))
              /\ Get(Get(redacted, S_data), S_user_id) = Str(<<"x">>)
        /\ data = rec_top_user => redacted = Dict(<<E(S_user_id, REDACTED)>>)

\* C2 amended: with the literals "data" and "data.user_id" allowed, the
\* nested user_id value "x" is visible; a top-level user_id is redacted with
\* or without "data" allowed; with only "data.user_id" allowed the matcher
\* allows user_id under the path data, but the output is
\* {"data": "[REDACTED]"} because the key data itself is not allowed.
C2_PathScopedWithParent ==
    /\ (op = "redact" /\ caller_fields = fields_data_path /\ data = rec_nested_user)
          => redacted = rec_nested_user
    /\ (op = "redact" /\ data = rec_top_user
          /\ (caller_fields = fields_data_path \/ caller_fields = fields_path_only))
          => redacted = Dict(<<E(S_user_id, REDACTED)>>)
    /\ (op = "redact" /\ caller_fields = fields_path_only /\ data = rec_nested_user)
          => redacted = Dict(<<E(S_data, REDACTED)>>)
    /\ (op = "match" /\ caller_fields = fields_path_only
          /\ field_path = S_user_id /\ current_path = S_data)
          => allowed

C2_Witness ==
    /\ op = "redact" /\ caller_fields = fields_data_path /\ data = rec_nested_user
    /\ Get(Get(redacted, S_data), S_user_id) = Str(<<"x">>)

\* C3: redacting the output of redact_sensitive_fields again, from the root,
\* returns it unchanged, also when the first pass unwrapped a body.
C3_FixedPoint == op = "redact_again" => redacted = previous

C3_Witness ==
    /\ op = "redact_again" /\ IsDict(data) /\ unwrap_body(data, <<>>) # data
    /\ redacted = previous

\* the loop of redact_sensitive_fields over a mapping d at the root, with no
\* unwrap step before it
OrdinaryRedaction(d) ==
    IF ~IsDict(d) THEN d
    ELSE Dict([i \in 1..Len(d.items) |->
                  E(d.items[i].k, redact_field(d.items[i].k, d.items[i].val, <<>>))])

\* d is exactly {"body": s} with s a string
IsBodyOnly(d) ==
    IsDict(d) /\ Len(d.items) = 1 /\ d.items[1].k = BODY /\ IsStr(d.items[1].val)

\* d is exactly {"body": s} and s parses as a JSON object
IsBodyRecord(d) ==
    /\ IsBodyOnly(d)
    /\ json_loads(d.items[1].val.s).ok
    /\ IsDict(json_loads(d.items[1].val.s).val)

C7_LiteralExactMatch ==
    op = "match" =>
        \A i \in 1..Len(allowed_fields) :
            ~allowed_fields[i].is_pattern =>
                (re_match(compiled_patterns[i], field_path)
                    <=> Lower(field_path) = Lower(allowed_fields[i].s))

RECURSIVE SeqHandled(_, _, _)
\* out is the output for the working mapping w at path: under every allowed
\* key holding a sequence, out holds a sequence of the same length, with each
\* mapping element redacted at path.key and each other element unchanged
SeqHandled(w, out, path) ==
    /\ IsDict(out) /\ Len(out.items) = Len(w.items)
    /\ \A i \in 1..Len(w.items) :
          LET key == w.items[i].k
              v == w.items[i].val
              o == out.items[i].val
              np == join_path(path, key)
          IN _is_field_allowed(key, path) =>
                CASE IsList(v) ->
                       /\ IsList(o) /\ Len(o.items) = Len(v.items)
                       /\ \A j \in 1..Len(v.items) :
                             LET item == v.items[j].val IN
                             IF IsDict(item)
                             THEN /\ o.items[j].val = redact_sensitive_fields(item, np)
                                  /\ SeqHandled(unwrap_body(item, np), o.items[j].val, np)
                             ELSE o.items[j].val = item
                  [] IsDict(v) -> SeqHandled(unwrap_body(v, np), o, np)
                  [] OTHER -> TRUE

\* C8: under an allowed key whose value is a sequence the output is a
\* sequence of the same length and order, every mapping element replaced by
\* its redaction at current_path.key and every other element unchanged.
C8_SequenceHandling ==
    (op = "redact" /\ IsDict(data)) =>
        SeqHandled(unwrap_body(data, <<>>), redacted, <<>>)

\* a sequence mixing mappings and other elements, under an allowed key
C8_Witness ==
    /\ op = "redact" /\ data = rec_list_mixed
    /\ _is_field_allowed(S_data, <<>>)
    /\ IsList(Get(redacted, S_data))
    /\ Len(Get(redacted, S_data).items) = 4
    /\ Get(redacted, S_data).items[1].val = Num(<<"1">>)

\* the output for a mapping {"body": <JSON-object string>} that is not unwrapped
BodyKept(v, path) ==
    Dict(<<E(BODY, IF _is_field_allowed(BODY, path) THEN v.items[1].val ELSE REDACTED)>>)

RECURSIVE NestedBodyKept(_, _, _)
\* out is the output for the working mapping w at path: every mapping
\* {"body": <JSON-object string>} below w, as the value of an allowed key or
\* as an element of its sequence, is redacted as it stands
NestedBodyKept(w, out, path) ==
    \A i \in 1..Len(w.items) :
        LET key == w.items[i].k
            v == w.items[i].val
            o == out.items[i].val
            np == join_path(path, key)
        IN _is_field_allowed(key, path) =>
              CASE IsDict(v) ->
                     IF IsBodyRecord(v) THEN o = BodyKept(v, np)
                     ELSE NestedBodyKept(v, o, np)
                [] IsList(v) ->
                     \A j \in 1..Len(v.items) :
                         LET item == v.items[j].val IN
                         IsDict(item) =>
                             IF IsBodyRecord(item) THEN o.items[j].val = BodyKept(item, np)
                             ELSE NestedBodyKept(item, o.items[j].val, np)
                [] OTHER -> TRUE

\* C10: a mapping {"body": <JSON-object string>} reached at nesting depth 1
\* or more is never unwrapped and gets no "__body_unwrapped" marker.
C10_UnwrapRootOnly ==
    (op = "redact" /\ IsDict(data)) =>
        NestedBodyKept(unwrap_body(data, <<>>), redacted, <<>>)

-----------------------------------------------------------------------------
(* Claims about the facade (specifications SpecFacade and SpecThreads) *)

\* C5: over sequential error() calls the first computes the flag false and
\* every later one computes true exactly when it comes strictly less than
\* 5 seconds after the error() call before it; the stored timestamp is the
\* time of the latest error() call, flagged or not.
C5_Debounce ==
    /\ \A i \in 1..Len(calls) :
          calls[i].flag <=> (i > 1 /\ calls[i].t - calls[i - 1].t < 5)
    /\ IF calls = <<>> THEN last_error_time.is_none
       ELSE ~last_error_time.is_none /\ last_error_time.t = calls[Len(calls)].t

\* false, then true within 5 seconds, then false again after a 6-second gap
C5_Witness ==
    /\ Len(calls) = 3
    /\ ~calls[1].flag /\ calls[2].flag /\ ~calls[3].flag
    /\ calls[2].t - calls[1].t < 5
    /\ calls[3].t - calls[2].t = 6

\* C6: in no interleaving of concurrent error() calls do two calls made
\* within 5 seconds of each other both compute the flag false.
C6_AtomicDebounce ==
    \A i \in 1..Len(calls), j \in 1..Len(calls) :
        (i < j /\ calls[j].t - calls[i].t < 5 /\ calls[i].t - calls[j].t < 5)
            => (calls[i].flag \/ calls[j].flag)

LogOps == {"error", "info", "warning"}

-----------------------------------------------------------------------------
(* Claims about the frame of the debounce state (specification SpecFrame) *)

OtherOps == {"info", "warning", "flush", "redact"}

\* C11: info(), warning(), flush() and redact_sensitive_fields leave
\* last_error_time as it is, only error() writes it; and an error() call
\* that follows any of them computes its flag from the time of the error()
\* call before it alone, as if they had not been made.
C11_DebounceFrame ==
    [][ /\ op' \in OtherOps => last_error_time' = last_error_time
        /\ last_error_time' # last_error_time => (op' = "error" /\ calls' # calls)
        /\ (op \in OtherOps /\ calls' # calls) =>
              /\ Len(calls') = Len(calls) + 1
              /\ calls'[Len(calls')].flag <=>
                    (calls # <<>> /\ calls'[Len(calls')].t - calls[Len(calls)].t < 5)
      ]_vars

\* an info, warning, flush or redact call made within 5 seconds after an
\* error() call, with the stored timestamp still that call's time
C11_Witness ==
    /\ op \in OtherOps
    /\ Len(calls) = 1
    /\ now > calls[1].t /\ now - calls[1].t < 5
    /\ ~last_error_time.is_none /\ last_error_time.t = calls[1].t

====
